---- MODULE Spec2Model ----
(***************************************************************************)
(* Model of FinalProject/code/qa_model.py: the training loop custom_train  *)
(* with its periodic logging, checkpointing, evaluation and early          *)
(* stopping, and the two dataset metrics custom_get_dev_loss and           *)
(* check_score_cm.                                                         *)
(*                                                                         *)
(* Numbers.  Python floats are modelled as fixed-point numbers with        *)
(* FixScale units per 1.0 (rounding toward zero); a quotient that is only  *)
(* compared is kept as a pair <<numerator, denominator>>.  A variable that  *)
(* is None or a value holds <<>> or <<value>>; a local that is not yet      *)
(* bound holds Unbound.  Losses are non-negative (cross entropy).           *)
(***************************************************************************)
EXTENDS Integers, Sequences, FiniteSets, TLC

\* ------------------------------------------------------------------ bounds
MaxEpochs == 2        \* FLAGS.num_epochs ranges over 0..MaxEpochs
TrainBatches == 1     \* batches the train generator yields per epoch
MaxEvery == 2         \* print_every, save_every, eval_every range over 1..MaxEvery
MaxKeep == 1          \* FLAGS.keep ranges over 0..MaxKeep

StepCap == 3          \* num_epochs = 0 never ends: RunTrainStep stops at this step
MaxSaverKeep == 3     \* the savers on their own: FLAGS.keep ranges over 0..MaxSaverKeep
MaxSaverSteps == 4    \* the savers on their own: steps 1..MaxSaverSteps are saved
MaxBatchLoss == 10    \* custom_get_dev_loss: a batch loss ranges over 0..MaxBatchLoss
MaxBatchSize == 3     \* custom_get_dev_loss: a batch holds 1..MaxBatchSize examples
MaxDevBatches == 2    \* custom_get_dev_loss: the generator yields 0..MaxDevBatches batches
MaxScoreBatchSize == 4  \* check_score_cm: a batch holds 1..MaxScoreBatchSize examples
MaxScoreBatches == 2    \* check_score_cm: the generator yields 0..MaxScoreBatches batches
MaxSamples == 5         \* check_score_cm: num_samples ranges over 0..MaxSamples

None == <<>>
Some(x) == <<x>>
Val(o) == o[1]
Unbound == 0 - 1
FixScale == 100 * 100 * 100 * 100
ToFix(x) == x * FixScale

\* ------------------------------------------------------------------ state
VARIABLES
    FLAGS,                    \* [num_epochs, print_every, save_every, eval_every, keep]
    dev_set,                  \* batch sizes the dev generator yields (discard_long=True)
    pc,                       \* position in custom_train
    epoch,                    \* local epoch
    batch_idx,                \* batches of the current epoch already consumed
    global_step_var,          \* self.global_step, the tf.Variable
    global_step,              \* the value run_train_iter fetched and returned
    loss,                     \* the loss run_train_iter returned
    exp_loss,                 \* exponentially smoothed loss: None or Some(fixed point)
    best_subm_score,          \* None or Some(score)
    lowest_dev_loss,          \* None or Some(<<num, den>>)
    dev_loss, train_score, dev_score,   \* locals of the evaluation block
    saver,                    \* checkpoints (step tags, oldest first) kept by self.saver
    bestmodel_saver,          \* ... by self.bestmodel_saver
    bestmodel_dev_loss_saver, \* ... by self.bestmodel_dev_loss_saver
    summary_writer,           \* write_summary events since the last run_train_iter
    score_calls,              \* check_score_cm calls since the last run_train_iter
    info_log,                 \* logging.info record of the print block since then
    written,                  \* step tags self.saver.save was called with, in order
    raised,                   \* None, or Some(exception) once one was raised
    observed                  \* <<step, dev score, dev loss>> of the evaluations recorded

trainVars == <<FLAGS, dev_set, pc, epoch, batch_idx, global_step_var, global_step,
               loss, exp_loss, best_subm_score, lowest_dev_loss, dev_loss,
               train_score, dev_score, saver, bestmodel_saver,
               bestmodel_dev_loss_saver, summary_writer, score_calls, info_log,
               written, raised, observed>>

\* a call of custom_get_dev_loss on its own
VARIABLES
    dl_batches,               \* what the generator yields: [loss, batch_size] each
    dl_result,                \* None, Some(<<num, den>>) or Some(ZeroDivisionError)
    dl_pc

lossVars == <<dl_batches, dl_result, dl_pc>>

\* a call of check_score_cm on its own
VARIABLES
    cs_batches,               \* what the generator yields: each batch a sequence of examples
    num_samples,              \* the argument num_samples
    cs_next,                  \* index of the next batch the generator will yield
    pred_list,                \* examples whose predicted label was collected
    actual_list,              \* examples whose actual label was collected
    rem_count,
    cs_pc

scoreVars == <<cs_batches, num_samples, cs_next, pred_list, actual_list, rem_count, cs_pc>>

vars == <<trainVars, lossVars, scoreVars>>

\* ------------------------------------------------------- helper operators
RECURSIVE SumSeq(_)
SumSeq(s) == IF s = <<>> THEN 0 ELSE Head(s) + SumSeq(Tail(s))

Last(s) == s[Len(s)]

\* a < b for quotients <<num, den>> with positive denominators
RatLess(a, b) == a[1] * b[2] < b[1] * a[2]
RatEq(a, b) == a[1] * b[2] = b[1] * a[2]

\* Python truthiness of a float-or-None: None and 0.0 are false
Truthy(x) == x # None /\ Val(x) # 0

\* ---------------------------------------------------------- __init__
MaxToKeepAllKeep(slot) == FLAGS.keep

\* lines 78-80: max_to_keep of the three tf.train.Saver objects
MaxToKeep(slot) ==
    CASE slot = "saver" -> FLAGS.keep
      [] slot = "bestmodel_saver" -> 1
      [] slot = "bestmodel_dev_loss_saver" -> 1

\* tf.train.Saver.save(session, path, global_step=tag) on a saver that keeps
\* the checkpoints ckpts: the checkpoint named by tag is (re)written and
\* becomes the newest; with max_to_keep > 0 the oldest ones beyond
\* max_to_keep are deleted, with max_to_keep = 0 none is ever deleted.
SaverSave(ckpts, max_to_keep, tag) ==
    LET others == SelectSeq(ckpts, LAMBDA t : t # tag)
        all    == Append(others, tag)
    IN  IF max_to_keep # 0 /\ Len(all) > max_to_keep
        THEN SubSeq(all, Len(all) - max_to_keep + 1, Len(all))
        ELSE all

\* ---------------------------------------------------- custom_get_dev_loss
ZeroDivisionError == "ZeroDivisionError"

custom_get_dev_loss_unweighted(batches) ==
    LET loss_per_batch == [i \in 1..Len(batches) |-> batches[i].loss]
        total_num_examples == Len(batches)
    IN  IF total_num_examples = 0
        THEN ZeroDivisionError
        ELSE <<SumSeq(loss_per_batch), total_num_examples>>

custom_get_dev_loss_guarded(batches) ==
    LET loss_per_batch == [i \in 1..Len(batches) |->
                              batches[i].loss * batches[i].batch_size]
        batch_lengths  == [i \in 1..Len(batches) |-> batches[i].batch_size]
        total_num_examples == SumSeq(batch_lengths)
    IN  IF total_num_examples = 0
        THEN <<0, 1>>
        ELSE <<SumSeq(loss_per_batch), total_num_examples>>

\* batches: the sequence the generator yields, each [loss, batch_size] where
\* loss is what get_loss returns for it.  Result: the quotient
\* sum(loss_per_batch) / float(total_num_examples), or the exception.
custom_get_dev_loss(batches) ==
    LET loss_per_batch == [i \in 1..Len(batches) |->
                              batches[i].loss * batches[i].batch_size]
        batch_lengths  == [i \in 1..Len(batches) |-> batches[i].batch_size]
        total_num_examples == SumSeq(batch_lengths)
    IN  IF total_num_examples = 0
        THEN ZeroDivisionError
        ELSE <<SumSeq(loss_per_batch), total_num_examples>>

\* --------------------------------------------------------- check_score_cm
FirstN(s, n) == SubSeq(s, 1, n)

check_score_batch_untruncated(n_samples, rem, batch) ==
    IF n_samples = 0
    THEN [taken |-> batch, rem_count |-> rem, brk |-> FALSE]
    ELSE LET r == IF rem >= Len(batch) THEN rem - Len(batch) ELSE 0
         IN  [taken |-> batch, rem_count |-> r, brk |-> (r = 0)]

\* lines 430-455: the loop body for one batch (the examples of the batch, in
\* order): what is appended to pred_list and to actual_list, the new
\* rem_count, and whether the loop breaks
check_score_batch(n_samples, rem, batch) ==
    IF n_samples = 0
    THEN [taken |-> batch, rem_count |-> rem, brk |-> FALSE]
    ELSE LET batch_size == Len(batch)
             r == IF rem >= batch_size THEN rem - batch_size ELSE 0
         IN  [taken     |-> IF rem >= batch_size THEN batch ELSE FirstN(batch, rem),
              rem_count |-> r,
              brk       |-> (r = 0)]

\* ------------------------------------------------------------ custom_train
NextGlobalStepNotPassed(gs) == gs

\* lines 73-75: apply_gradients(..., global_step=self.global_step) adds one to
\* the counter in every run of self.updates
NextGlobalStep(gs) == gs + 1

RaiseCaughtInLoop(at) == "for"

\* lines 505-570 hold no try statement: an exception raised at any position
\* of the loop body leaves custom_train
Raise(at) == "failed"

\* what a failing library call (Saver.save, session.run, FileWriter) raises
SomeException == "Exception"

PrintDueOffByOne(gs, every) == (gs - 1) % every = 0

WhileCondInclusive(num_epochs, ep) == num_epochs = 0 \/ ep <= num_epochs

\* line 505: the epoch loop condition
WhileCond(num_epochs, ep) == num_epochs = 0 \/ ep < num_epochs

\* lines 519-522: update of the exponentially smoothed loss
SmoothLoss(el, l) ==
    IF ~Truthy(el)
    THEN Some(ToFix(l))
    ELSE Some((Val(el) - Val(el) \div 100) + ToFix(l) \div 100)

SaveDueOffByOne(gs, every) == (gs - 1) % every = 0
EvalDueNextStep(gs, every) == (gs + 1) % every = 0

\* lines 525, 531, 536: the three schedules
PrintDue(gs, every) == gs % every = 0
SaveDue(gs, every) == gs % every = 0
EvalDue(gs, every) == gs % every = 0

\* line 546 and line 555: the sample limits handed to check_score_cm
TrainNumSamples == 1000
DevNumSamples == 0

BetterOrEqualScore(ds, best) == best = None \/ ds >= Val(best)
LowerOrEqualLoss(dl, lowest) == lowest = None \/ ~RatLess(Val(lowest), dl)
LowerLossElif(dl, lowest) ==
    /\ bestmodel_saver # <<global_step>>
    /\ (lowest = None \/ RatLess(dl, Val(lowest)))

\* line 562 and line 567: the early-stopping comparisons
BetterScore(ds, best) == best = None \/ ds > Val(best)
LowerLoss(dl, lowest) == lowest = None \/ RatLess(dl, Val(lowest))

\* lines 588-592: write_summary appends one tagged scalar
write_summary(value, tag, writer, step) == Append(writer, <<tag, value, step>>)

\* values considered for a batch loss (get_loss, run_train_iter) and for a
\* score (report_score): the code only adds, scales and compares them
Losses == {0, 1}
Scores == {0, 1}

Flags == [num_epochs : 0..MaxEpochs, print_every : 1..MaxEvery,
          save_every : 1..MaxEvery, eval_every : 1..MaxEvery, keep : 0..MaxKeep]

\* batch sizes of the dev sets considered: empty, one batch
DevSources == {<<>>, <<1>>}

InitTrain ==
    /\ FLAGS \in Flags
    /\ dev_set \in DevSources
    /\ pc = "while"
    /\ epoch = 0
    /\ batch_idx = 0
    /\ global_step_var = 0
    /\ global_step = Unbound
    /\ loss = Unbound
    /\ exp_loss = None
    /\ best_subm_score = None
    /\ lowest_dev_loss = None
    /\ dev_loss = None /\ train_score = None /\ dev_score = None
    /\ saver = <<>> /\ bestmodel_saver = <<>> /\ bestmodel_dev_loss_saver = <<>>
    /\ summary_writer = <<>>
    /\ score_calls = <<>>
    /\ info_log = None
    /\ written = <<>>
    /\ raised = None
    /\ observed = <<>>
    /\ dl_batches = <<>> /\ dl_result = None /\ dl_pc = "idle"
    /\ cs_batches = <<>> /\ num_samples = 0 /\ cs_next = 1
    /\ pred_list = <<>> /\ actual_list = <<>> /\ rem_count = 0 /\ cs_pc = "idle"

\* lines 505-506: enter the next epoch
EnterEpoch ==
    /\ pc = "while"
    /\ WhileCond(FLAGS.num_epochs, epoch)
    /\ epoch' = epoch + 1
    /\ batch_idx' = 0
    /\ pc' = "for"
    /\ UNCHANGED <<FLAGS, dev_set, global_step_var, global_step, loss, exp_loss,
                   best_subm_score, lowest_dev_loss, dev_loss, train_score,
                   dev_score, saver, bestmodel_saver, bestmodel_dev_loss_saver,
                   summary_writer, score_calls, info_log>>
    /\ UNCHANGED <<written, raised, observed, lossVars, scoreVars>>

\* lines 505, 584: the budget is exhausted, custom_train returns
ExitWhile ==
    /\ pc = "while"
    /\ ~WhileCond(FLAGS.num_epochs, epoch)
    /\ pc' = "done"
    /\ UNCHANGED <<FLAGS, dev_set, epoch, batch_idx, global_step_var, global_step,
                   loss, exp_loss, best_subm_score, lowest_dev_loss, dev_loss,
                   train_score, dev_score, saver, bestmodel_saver,
                   bestmodel_dev_loss_saver, summary_writer, score_calls, info_log>>
    /\ UNCHANGED <<written, raised, observed, lossVars, scoreVars>>

\* lines 510, 581-582: the batch generator is exhausted, the epoch ends
EndEpoch ==
    /\ pc = "for"
    /\ batch_idx = TrainBatches
    /\ pc' = "while"
    /\ UNCHANGED <<FLAGS, dev_set, epoch, batch_idx, global_step_var, global_step,
                   loss, exp_loss, best_subm_score, lowest_dev_loss, dev_loss,
                   train_score, dev_score, saver, bestmodel_saver,
                   bestmodel_dev_loss_saver, summary_writer, score_calls, info_log>>
    /\ UNCHANGED <<written, raised, observed, lossVars, scoreVars>>

\* lines 510-522: next batch, run_train_iter, smoothed loss.  session.run
\* fetches self.global_step in the call that runs self.updates, which
\* increments it: the value returned is the counter after the increment,
\* "the current number of training iterations we've done" (lines 259-263).
RunTrainStep ==
    /\ pc = "for"
    /\ batch_idx < TrainBatches
    /\ global_step_var < StepCap
    /\ batch_idx' = batch_idx + 1
    /\ global_step_var' = NextGlobalStep(global_step_var)
    /\ global_step' = NextGlobalStep(global_step_var)
    /\ loss' \in Losses
    /\ exp_loss' = SmoothLoss(exp_loss, loss')
    /\ dev_loss' = None /\ train_score' = None /\ dev_score' = None
    /\ summary_writer' = <<>>
    /\ score_calls' = <<>>
    /\ info_log' = None
    /\ pc' = "print"
    /\ UNCHANGED <<FLAGS, dev_set, epoch, best_subm_score, lowest_dev_loss,
                   saver, bestmodel_saver, bestmodel_dev_loss_saver>>
    /\ UNCHANGED <<written, raised, observed, lossVars, scoreVars>>

\* lines 524-528: sometimes print info to screen
PrintInfo ==
    /\ pc = "print"
    /\ info_log' = IF PrintDue(global_step, FLAGS.print_every)
                   THEN Some(<<epoch, global_step, loss, Val(exp_loss)>>)
                   ELSE info_log
    /\ pc' = "save"
    /\ UNCHANGED <<FLAGS, dev_set, epoch, batch_idx, global_step_var, global_step,
                   loss, exp_loss, best_subm_score, lowest_dev_loss, dev_loss,
                   train_score, dev_score, saver, bestmodel_saver,
                   bestmodel_dev_loss_saver, summary_writer, score_calls>>
    /\ UNCHANGED <<written, raised, observed, lossVars, scoreVars>>

\* lines 530-536: sometimes save the model, then decide whether to evaluate
SaveModel ==
    /\ pc = "save"
    /\ IF SaveDue(global_step, FLAGS.save_every)
       THEN /\ saver' = SaverSave(saver, MaxToKeep("saver"), global_step)
            /\ written' = Append(written, global_step)
       ELSE UNCHANGED <<saver, written>>
    /\ pc' = IF EvalDue(global_step, FLAGS.eval_every) THEN "eval_loss" ELSE "for"
    /\ UNCHANGED <<FLAGS, dev_set, epoch, batch_idx, global_step_var, global_step,
                   loss, exp_loss, best_subm_score, lowest_dev_loss, dev_loss,
                   train_score, dev_score, bestmodel_saver,
                   bestmodel_dev_loss_saver, summary_writer, score_calls, info_log>>
    /\ UNCHANGED <<raised, observed, lossVars, scoreVars>>

\* lines 540-542: dev loss, written as "dev/loss"; the division by zero of an
\* empty dev set is not caught and ends custom_train
EvalDevLoss ==
    /\ pc = "eval_loss"
    /\ \E losses \in [1..Len(dev_set) -> Losses] :
         LET batches == [i \in 1..Len(dev_set) |->
                            [loss |-> losses[i], batch_size |-> dev_set[i]]]
             r == custom_get_dev_loss(batches)
         IN  IF r = ZeroDivisionError
             THEN /\ pc' = Raise("eval_loss")
                  /\ raised' = Some(ZeroDivisionError)
                  /\ UNCHANGED <<dev_loss, summary_writer>>
             ELSE /\ dev_loss' = Some(r)
                  /\ summary_writer' = write_summary(r, "dev/loss", summary_writer, global_step)
                  /\ pc' = "eval_train"
                  /\ UNCHANGED raised
    /\ UNCHANGED <<FLAGS, dev_set, epoch, batch_idx, global_step_var, global_step,
                   loss, exp_loss, best_subm_score, lowest_dev_loss,
                   train_score, dev_score, saver, bestmodel_saver,
                   bestmodel_dev_loss_saver, score_calls, info_log>>
    /\ UNCHANGED <<written, observed, lossVars, scoreVars>>

\* lines 546-550: score on a sample of the train set, written as
\* "train/subm_score"; report_score is an opaque function of the labels
EvalTrainScore ==
    /\ pc = "eval_train"
    /\ \E sc \in Scores :
         /\ train_score' = Some(sc)
         /\ summary_writer' = write_summary(sc, "train/subm_score", summary_writer, global_step)
    /\ score_calls' = Append(score_calls, <<"train", TrainNumSamples>>)
    /\ pc' = "eval_dev"
    /\ UNCHANGED <<FLAGS, dev_set, epoch, batch_idx, global_step_var, global_step,
                   loss, exp_loss, best_subm_score, lowest_dev_loss, dev_loss,
                   dev_score, saver, bestmodel_saver, bestmodel_dev_loss_saver,
                   info_log>>
    /\ UNCHANGED <<written, raised, observed, lossVars, scoreVars>>

\* lines 555-558: score on the dev set, written as "dev/subm_score"
EvalDevScore ==
    /\ pc = "eval_dev"
    /\ \E sc \in Scores :
         /\ dev_score' = Some(sc)
         /\ summary_writer' = write_summary(sc, "dev/subm_score", summary_writer, global_step)
    /\ score_calls' = Append(score_calls, <<"dev", DevNumSamples>>)
    /\ pc' = "es_score"
    /\ UNCHANGED <<FLAGS, dev_set, epoch, batch_idx, global_step_var, global_step,
                   loss, exp_loss, best_subm_score, lowest_dev_loss, dev_loss,
                   train_score, saver, bestmodel_saver, bestmodel_dev_loss_saver,
                   info_log>>
    /\ UNCHANGED <<written, raised, observed, lossVars, scoreVars>>

\* lines 561-565: early stopping based on submission score
EarlyStopScore ==
    /\ pc = "es_score"
    /\ IF BetterScore(Val(dev_score), best_subm_score)
       THEN /\ best_subm_score' = dev_score
            /\ bestmodel_saver' = SaverSave(bestmodel_saver,
                                            MaxToKeep("bestmodel_saver"), global_step)
       ELSE UNCHANGED <<best_subm_score, bestmodel_saver>>
    /\ pc' = "es_loss"
    /\ UNCHANGED <<FLAGS, dev_set, epoch, batch_idx, global_step_var, global_step,
                   loss, exp_loss, lowest_dev_loss, dev_loss, train_score,
                   dev_score, saver, bestmodel_dev_loss_saver, summary_writer,
                   score_calls, info_log>>
    /\ UNCHANGED <<written, raised, observed, lossVars, scoreVars>>

\* lines 567-570: early stopping based on dev loss
EarlyStopLoss ==
    /\ pc = "es_loss"
    /\ IF LowerLoss(Val(dev_loss), lowest_dev_loss)
       THEN /\ lowest_dev_loss' = dev_loss
            /\ bestmodel_dev_loss_saver' =
                   SaverSave(bestmodel_dev_loss_saver,
                             MaxToKeep("bestmodel_dev_loss_saver"), global_step)
       ELSE UNCHANGED <<lowest_dev_loss, bestmodel_dev_loss_saver>>
    /\ pc' = "for"
    /\ UNCHANGED <<FLAGS, dev_set, epoch, batch_idx, global_step_var, global_step,
                   loss, exp_loss, best_subm_score, dev_loss, train_score,
                   dev_score, saver, bestmodel_saver, summary_writer,
                   score_calls, info_log>>
    /\ UNCHANGED <<written, raised, observed, lossVars, scoreVars>>

\* line 533: the scheduled save of the most-recent checkpoint raises
SaveFails ==
    /\ pc = "save"
    /\ SaveDue(global_step, FLAGS.save_every)
    /\ raised' = Some(SomeException)
    /\ pc' = Raise("save")
    /\ UNCHANGED <<FLAGS, dev_set, epoch, batch_idx, global_step_var, global_step,
                   loss, exp_loss, best_subm_score, lowest_dev_loss, dev_loss,
                   train_score, dev_score, saver, bestmodel_saver,
                   bestmodel_dev_loss_saver, summary_writer, score_calls, info_log>>
    /\ UNCHANGED <<written, observed, lossVars, scoreVars>>

\* lines 540-558: a call of the evaluation block (custom_get_dev_loss,
\* check_score_cm, write_summary) raises
EvalFails ==
    /\ pc \in {"eval_loss", "eval_train", "eval_dev"}
    /\ raised' = Some(SomeException)
    /\ pc' = Raise(pc)
    /\ UNCHANGED <<FLAGS, dev_set, epoch, batch_idx, global_step_var, global_step,
                   loss, exp_loss, best_subm_score, lowest_dev_loss, dev_loss,
                   train_score, dev_score, saver, bestmodel_saver,
                   bestmodel_dev_loss_saver, summary_writer, score_calls, info_log>>
    /\ UNCHANGED <<written, observed, lossVars, scoreVars>>

\* lines 562-565 and 567-570: the save to a best slot raises, after the best
\* value was assigned
BestSaveFails ==
    /\ \/ /\ pc = "es_score"
          /\ BetterScore(Val(dev_score), best_subm_score) = TRUE
          /\ best_subm_score' = dev_score
          /\ UNCHANGED lowest_dev_loss
       \/ /\ pc = "es_loss"
          /\ LowerLoss(Val(dev_loss), lowest_dev_loss) = TRUE
          /\ lowest_dev_loss' = dev_loss
          /\ UNCHANGED best_subm_score
    /\ raised' = Some(SomeException)
    /\ pc' = Raise(pc)
    /\ UNCHANGED <<FLAGS, dev_set, epoch, batch_idx, global_step_var, global_step,
                   loss, exp_loss, dev_loss, train_score, dev_score, saver,
                   bestmodel_saver, bestmodel_dev_loss_saver, summary_writer,
                   score_calls, info_log>>
    /\ UNCHANGED <<written, observed, lossVars, scoreVars>>

Init == InitTrain

Next ==
    \/ EnterEpoch
    \/ ExitWhile
    \/ EndEpoch
    \/ RunTrainStep
    \/ PrintInfo
    \/ SaveModel
    \/ EvalDevLoss
    \/ EvalTrainScore
    \/ EvalDevScore
    \/ EarlyStopScore
    \/ EarlyStopLoss

Spec == Init /\ [][Next]_vars

\* custom_train when the calls of its scheduled actions may raise
InitFail == InitTrain

NextFail ==
    \/ EnterEpoch
    \/ ExitWhile
    \/ EndEpoch
    \/ RunTrainStep
    \/ PrintInfo
    \/ SaveModel
    \/ EvalDevLoss
    \/ EvalTrainScore
    \/ EvalDevScore
    \/ EarlyStopScore
    \/ EarlyStopLoss
    \/ SaveFails
    \/ EvalFails
    \/ BestSaveFails

SpecFail == InitFail /\ [][NextFail]_vars

\* ------------------------------------------------ the savers on their own
\* The three save calls of custom_train (lines 533, 565, 570) freed from the
\* schedule and the comparisons: after each training step any of the savers
\* may be asked to save, each at most once per step as in the loop body.
InitSavers ==
    /\ FLAGS \in [num_epochs : {0}, print_every : {1}, save_every : {1},
                  eval_every : {1}, keep : 0..MaxSaverKeep]
    /\ dev_set = <<>>
    /\ pc = "savers"
    /\ epoch = 0 /\ batch_idx = 0 /\ global_step_var = 0
    /\ global_step = 0 /\ loss = Unbound
    /\ exp_loss = None /\ best_subm_score = None /\ lowest_dev_loss = None
    /\ dev_loss = None /\ train_score = None /\ dev_score = None
    /\ saver = <<>> /\ bestmodel_saver = <<>> /\ bestmodel_dev_loss_saver = <<>>
    /\ summary_writer = <<>> /\ score_calls = <<>> /\ info_log = None
    /\ written = <<>>
    /\ raised = None
    /\ observed = <<>>
    /\ dl_batches = <<>> /\ dl_result = None /\ dl_pc = "idle"
    /\ cs_batches = <<>> /\ num_samples = 0 /\ cs_next = 1
    /\ pred_list = <<>> /\ actual_list = <<>> /\ rem_count = 0 /\ cs_pc = "idle"

saverFrame == <<FLAGS, dev_set, pc, epoch, batch_idx, loss, exp_loss,
                best_subm_score, lowest_dev_loss, dev_loss, train_score,
                dev_score, summary_writer, score_calls, info_log, raised, observed,
                lossVars, scoreVars>>

\* line 514: one more training step has been run
SaverStep ==
    /\ pc = "savers"
    /\ global_step_var < MaxSaverSteps
    /\ global_step_var' = NextGlobalStep(global_step_var)
    /\ global_step' = NextGlobalStep(global_step_var)
    /\ UNCHANGED <<saver, bestmodel_saver, bestmodel_dev_loss_saver, written, saverFrame>>

\* line 533: self.saver.save(session, checkpoint_path, global_step=global_step)
SaveRecent ==
    /\ pc = "savers"
    /\ global_step >= 1
    /\ ~(written # <<>> /\ Last(written) = global_step)
    /\ saver' = SaverSave(saver, MaxToKeep("saver"), global_step)
    /\ written' = Append(written, global_step)
    /\ UNCHANGED <<global_step_var, global_step, bestmodel_saver,
                   bestmodel_dev_loss_saver, saverFrame>>

\* line 565: self.bestmodel_saver.save(..., global_step=global_step)
SaveBestScore ==
    /\ pc = "savers"
    /\ global_step >= 1
    /\ ~(bestmodel_saver # <<>> /\ Last(bestmodel_saver) = global_step)
    /\ bestmodel_saver' = SaverSave(bestmodel_saver, MaxToKeep("bestmodel_saver"),
                                    global_step)
    /\ UNCHANGED <<global_step_var, global_step, saver, bestmodel_dev_loss_saver,
                   written, saverFrame>>

\* line 570: self.bestmodel_dev_loss_saver.save(..., global_step=global_step)
SaveBestLoss ==
    /\ pc = "savers"
    /\ global_step >= 1
    /\ ~(bestmodel_dev_loss_saver # <<>> /\ Last(bestmodel_dev_loss_saver) = global_step)
    /\ bestmodel_dev_loss_saver' =
           SaverSave(bestmodel_dev_loss_saver, MaxToKeep("bestmodel_dev_loss_saver"),
                     global_step)
    /\ UNCHANGED <<global_step_var, global_step, saver, bestmodel_saver,
                   written, saverFrame>>

NextSavers == SaverStep \/ SaveRecent \/ SaveBestScore \/ SaveBestLoss

SpecSavers == InitSavers /\ [][NextSavers]_vars

\* ---------------------------------------- custom_get_dev_loss on its own
DevBatch == [loss : 0..MaxBatchLoss, batch_size : 1..MaxBatchSize]

SeqsUpTo(S, n) == UNION {[1..k -> S] : k \in 0..n}

InitDevLoss ==
    /\ dl_batches \in SeqsUpTo(DevBatch, MaxDevBatches)
    /\ dl_result = None
    /\ dl_pc = "call"
    /\ FLAGS = [num_epochs |-> 0, print_every |-> 1, save_every |-> 1,
                eval_every |-> 1, keep |-> 1]
    /\ dev_set = <<>>
    /\ pc = "idle"
    /\ epoch = 0 /\ batch_idx = 0 /\ global_step_var = 0
    /\ global_step = Unbound /\ loss = Unbound
    /\ exp_loss = None /\ best_subm_score = None /\ lowest_dev_loss = None
    /\ dev_loss = None /\ train_score = None /\ dev_score = None
    /\ saver = <<>> /\ bestmodel_saver = <<>> /\ bestmodel_dev_loss_saver = <<>>
    /\ summary_writer = <<>> /\ score_calls = <<>> /\ info_log = None
    /\ written = <<>>
    /\ raised = None
    /\ observed = <<>>
    /\ cs_batches = <<>> /\ num_samples = 0 /\ cs_next = 1
    /\ pred_list = <<>> /\ actual_list = <<>> /\ rem_count = 0 /\ cs_pc = "idle"

\* lines 378-414: the call returns the quotient or raises ZeroDivisionError
GetDevLoss ==
    /\ dl_pc = "call"
    /\ dl_result' = Some(custom_get_dev_loss(dl_batches))
    /\ dl_pc' = IF custom_get_dev_loss(dl_batches) = ZeroDivisionError
                THEN "raised" ELSE "return"
    /\ UNCHANGED <<dl_batches, trainVars, scoreVars>>

NextDevLoss == GetDevLoss

SpecDevLoss == InitDevLoss /\ [][NextDevLoss]_vars

\* --------------------------------------------- check_score_cm on its own
\* the examples of a dataset are numbered 1, 2, ... in generator order; a
\* label list is modelled by the numbers of the examples the labels are of
RECURSIVE BatchesFrom(_, _)
BatchesFrom(first, sizes) ==
    IF sizes = <<>> THEN <<>>
    ELSE <<[i \in 1..Head(sizes) |-> first + i - 1]>>
           \o BatchesFrom(first + Head(sizes), Tail(sizes))

InitScore ==
    /\ \E sizes \in SeqsUpTo(1..MaxScoreBatchSize, MaxScoreBatches) :
         cs_batches = BatchesFrom(1, sizes)
    /\ num_samples \in 0..MaxSamples
    /\ cs_next = 1
    /\ pred_list = <<>>
    /\ actual_list = <<>>
    /\ rem_count = num_samples
    /\ cs_pc = "loop"
    /\ FLAGS = [num_epochs |-> 0, print_every |-> 1, save_every |-> 1,
                eval_every |-> 1, keep |-> 1]
    /\ dev_set = <<>>
    /\ pc = "idle"
    /\ epoch = 0 /\ batch_idx = 0 /\ global_step_var = 0
    /\ global_step = Unbound /\ loss = Unbound
    /\ exp_loss = None /\ best_subm_score = None /\ lowest_dev_loss = None
    /\ dev_loss = None /\ train_score = None /\ dev_score = None
    /\ saver = <<>> /\ bestmodel_saver = <<>> /\ bestmodel_dev_loss_saver = <<>>
    /\ summary_writer = <<>> /\ score_calls = <<>> /\ info_log = None
    /\ written = <<>>
    /\ raised = None
    /\ observed = <<>>
    /\ dl_batches = <<>> /\ dl_result = None /\ dl_pc = "idle"

\* lines 428-455: the generator yields the next batch and the body runs
ScoreBatch ==
    /\ cs_pc = "loop"
    /\ cs_next <= Len(cs_batches)
    /\ LET r == check_score_batch(num_samples, rem_count, cs_batches[cs_next])
       IN  /\ pred_list' = pred_list \o r.taken
           /\ actual_list' = actual_list \o r.taken
           /\ rem_count' = r.rem_count
           /\ cs_pc' = IF r.brk THEN "return" ELSE "loop"
    /\ cs_next' = cs_next + 1
    /\ UNCHANGED <<cs_batches, num_samples, trainVars, lossVars>>

\* lines 428, 458-463: the generator is exhausted, the score is computed
ScoreExhausted ==
    /\ cs_pc = "loop"
    /\ cs_next > Len(cs_batches)
    /\ cs_pc' = "return"
    /\ UNCHANGED <<cs_batches, num_samples, cs_next, pred_list, actual_list,
                   rem_count, trainVars, lossVars>>

NextScore == ScoreBatch \/ ScoreExhausted

SpecScore == InitScore /\ [][NextScore]_vars

\* ------------------------------- custom_train with its evaluations recorded
\* print_every, save_every and keep play no part in the evaluation block
ObservedFlags == [num_epochs : 0..MaxEpochs, print_every : {1}, save_every : {1},
                  eval_every : 1..MaxEvery, keep : {1}]

\* batch sizes of the dev sets considered: empty, one batch, two batches
\* (dev losses 0, 1/2 and 1)
ObservedDevSources == {<<>>, <<1>>, <<1, 1>>}

InitObserved ==
    /\ FLAGS \in ObservedFlags
    /\ dev_set \in ObservedDevSources
    /\ pc = "while"
    /\ epoch = 0
    /\ batch_idx = 0
    /\ global_step_var = 0
    /\ global_step = Unbound
    /\ loss = Unbound
    /\ exp_loss = None
    /\ best_subm_score = None
    /\ lowest_dev_loss = None
    /\ dev_loss = None /\ train_score = None /\ dev_score = None
    /\ saver = <<>> /\ bestmodel_saver = <<>> /\ bestmodel_dev_loss_saver = <<>>
    /\ summary_writer = <<>>
    /\ score_calls = <<>>
    /\ info_log = None
    /\ written = <<>>
    /\ raised = None
    /\ observed = <<>>
    /\ dl_batches = <<>> /\ dl_result = None /\ dl_pc = "idle"
    /\ cs_batches = <<>> /\ num_samples = 0 /\ cs_next = 1
    /\ pred_list = <<>> /\ actual_list = <<>> /\ rem_count = 0 /\ cs_pc = "idle"

\* lines 555-558 as in EvalDevScore; the step, the dev score and the dev loss
\* of this evaluation are recorded in observed
EvalDevScoreObserved ==
    /\ pc = "eval_dev"
    /\ \E sc \in Scores :
         /\ dev_score' = Some(sc)
         /\ summary_writer' = write_summary(sc, "dev/subm_score", summary_writer, global_step)
         /\ observed' = Append(observed, <<global_step, sc, Val(dev_loss)>>)
    /\ score_calls' = Append(score_calls, <<"dev", DevNumSamples>>)
    /\ pc' = "es_score"
    /\ UNCHANGED <<FLAGS, dev_set, epoch, batch_idx, global_step_var, global_step,
                   loss, exp_loss, best_subm_score, lowest_dev_loss, dev_loss,
                   train_score, saver, bestmodel_saver, bestmodel_dev_loss_saver,
                   info_log>>
    /\ UNCHANGED <<written, raised, lossVars, scoreVars>>

NextObserved ==
    \/ EnterEpoch
    \/ ExitWhile
    \/ EndEpoch
    \/ RunTrainStep
    \/ PrintInfo
    \/ SaveModel
    \/ EvalDevLoss
    \/ EvalTrainScore
    \/ EvalDevScoreObserved
    \/ EarlyStopScore
    \/ EarlyStopLoss

SpecObserved == InitObserved /\ [][NextObserved]_vars

\* the loop is sequential code: a step that can be taken is taken
LiveSpec == Spec /\ WF_vars(Next)

\* ------------------------------------------------------------------ claims
TrainStepTaken == pc = "for" /\ pc' = "print"

\* C1 (as stated): after the first training step the smoothed loss is that
\* step's raw loss; after every later step it is 0.99 * previous smoothed loss
\* + 0.01 * raw loss, whatever the losses are (a raw loss of 0 included).
C1_SeededByFirstStepOnly ==
    [][TrainStepTaken =>
         IF exp_loss = None
         THEN exp_loss' = Some(ToFix(loss'))
         ELSE Val(exp_loss') = (Val(exp_loss) - Val(exp_loss) \div 100)
                                 + ToFix(loss') \div 100]_vars

\* C2: at an evaluation step, if there is no best score yet or the dev score
\* is strictly greater than it, the best score becomes the dev score and the
\* best-by-score slot holds a checkpoint tagged with the current step;
\* otherwise best score and slot are unchanged.
C2_BestScoreUpdate ==
    [][pc = "es_score" =>
         IF best_subm_score = None \/ Val(dev_score) > Val(best_subm_score)
         THEN /\ best_subm_score' = dev_score
              /\ bestmodel_saver' # <<>>
              /\ Last(bestmodel_saver') = global_step
         ELSE /\ best_subm_score' = best_subm_score
              /\ bestmodel_saver' = bestmodel_saver]_vars

\* a tie with the best score went through the comparison and saved nothing
C2_Witness ==
    /\ pc = "es_loss"
    /\ best_subm_score = dev_score
    /\ bestmodel_saver # <<>>
    /\ Last(bestmodel_saver) < global_step

\* C3: at an evaluation step, if there is no lowest loss yet or the dev loss
\* is strictly less than it, the lowest loss becomes the dev loss and the
\* best-by-loss slot holds a checkpoint tagged with the current step;
\* otherwise lowest loss and slot are unchanged.
C3_LowestLossUpdate ==
    [][pc = "es_loss" =>
         IF lowest_dev_loss = None
            \/ Val(dev_loss)[1] * Val(lowest_dev_loss)[2]
                 < Val(lowest_dev_loss)[1] * Val(dev_loss)[2]
         THEN /\ lowest_dev_loss' = dev_loss
              /\ bestmodel_dev_loss_saver' # <<>>
              /\ Last(bestmodel_dev_loss_saver') = global_step
         ELSE /\ lowest_dev_loss' = lowest_dev_loss
              /\ bestmodel_dev_loss_saver' = bestmodel_dev_loss_saver]_vars

\* a tie with the lowest loss went through the comparison and saved nothing
C3_Witness ==
    /\ pc = "for"
    /\ dev_loss # None
    /\ lowest_dev_loss = dev_loss
    /\ bestmodel_dev_loss_saver # <<>>
    /\ Last(bestmodel_dev_loss_saver) < global_step

ScoreImproves == best_subm_score = None \/ Val(dev_score) > Val(best_subm_score)
LossImproves == lowest_dev_loss = None \/ RatLess(Val(dev_loss), Val(lowest_dev_loss))

\* C4: the two criteria are independent: the score comparison step changes
\* neither the lowest loss nor the best-by-loss slot and saves to the
\* best-by-score slot exactly when the score improves; the loss comparison
\* step changes neither the best score nor the best-by-score slot and saves
\* to the best-by-loss slot exactly when the loss improves.
C4_IndependentCriteria ==
    [][/\ (pc = "es_score" =>
             (/\ lowest_dev_loss' = lowest_dev_loss
              /\ bestmodel_dev_loss_saver' = bestmodel_dev_loss_saver
              /\ (bestmodel_saver' # bestmodel_saver) = ScoreImproves))
       /\ (pc = "es_loss" =>
             (/\ best_subm_score' = best_subm_score
              /\ bestmodel_saver' = bestmodel_saver
              /\ (bestmodel_dev_loss_saver' # bestmodel_dev_loss_saver) = LossImproves))]_vars

\* an evaluation improved the loss but not the score: only the loss slot was
\* written at this step
C4_Witness ==
    /\ pc = "for"
    /\ dev_loss # None
    /\ bestmodel_dev_loss_saver = <<global_step>>
    /\ bestmodel_saver # <<>>
    /\ Last(bestmodel_saver) < global_step
    /\ Val(dev_score) < Val(best_subm_score)

\* C5: the most-recent slot is written exactly by the save block of a step
\* whose step counter is a multiple of save_every, and the checkpoint written
\* is tagged with the counter value of the step just completed.
C5_SaveSchedule ==
    [][IF pc = "save" /\ global_step % FLAGS.save_every = 0
       THEN /\ saver' # saver
            /\ Last(saver') = global_step
            /\ global_step = global_step_var
       ELSE saver' = saver]_vars

\* with save_every = 2, step 1 saved nothing and step 2 saved
C5_Witness ==
    /\ FLAGS.save_every = 2
    /\ global_step = 2
    /\ pc \in {"for", "eval_loss"}
    /\ saver = <<2>>

LastN(s, n) == IF Len(s) <= n THEN s ELSE SubSeq(s, Len(s) - n + 1, Len(s))

\* C6 (as stated): every slot holds at most its retention count, FLAGS.keep
\* for the most-recent slot and 1 for each best slot.
C6_AtMostRetentionCount ==
    /\ Len(saver) <= FLAGS.keep
    /\ Len(bestmodel_saver) <= 1
    /\ Len(bestmodel_dev_loss_saver) <= 1

\* C6 (amended): each best slot holds at most 1 checkpoint, a save to it
\* leaving only the new one; with FLAGS.keep > 0 the most-recent slot holds
\* exactly the newest FLAGS.keep of the checkpoints written to it (all of them
\* while there are fewer), so a save beyond the count evicts the oldest and
\* steps 1,2,3,4 with retention 3 leave 2,3,4; with FLAGS.keep = 0 it holds
\* every checkpoint written.
C6_RetentionUnlessKeepAll ==
    /\ [](/\ Len(bestmodel_saver) <= 1
          /\ Len(bestmodel_dev_loss_saver) <= 1
          /\ (FLAGS.keep > 0 =>
                (Len(saver) <= FLAGS.keep /\ saver = LastN(written, FLAGS.keep)))
          /\ (FLAGS.keep = 0 => saver = written)
          /\ ((FLAGS.keep = 3 /\ written = <<1, 2, 3, 4>>) => saver = <<2, 3, 4>>))
    /\ [][/\ (bestmodel_saver' # bestmodel_saver => bestmodel_saver' = <<global_step>>)
           /\ (bestmodel_dev_loss_saver' # bestmodel_dev_loss_saver =>
                  bestmodel_dev_loss_saver' = <<global_step>>)]_vars

\* steps 1,2,3,4 were saved with retention 3, and a best slot was rewritten
C6_Witness ==
    /\ FLAGS.keep = 3
    /\ written = <<1, 2, 3, 4>>
    /\ saver = <<2, 3, 4>>
    /\ bestmodel_saver = <<4>>

\* a positive epoch budget whose steps the model's step cap lets through
BudgetFitsCap ==
    LET steps == FLAGS.num_epochs * TrainBatches
    IN  FLAGS.num_epochs > 0 /\ steps <= StepCap

\* C7: custom_train returns only with num_epochs = N > 0, after exactly N
\* epochs of TrainBatches steps each; with num_epochs = 0 the loop test always
\* starts another epoch; and with N > 0 (N epochs fitting under StepCap) the
\* run ends: it returns, unless the dev set is empty and the first evaluation
\* raises.
C7_EpochBudget ==
    /\ [](pc = "done" => (/\ FLAGS.num_epochs > 0
                          /\ epoch = FLAGS.num_epochs
                          /\ global_step_var = FLAGS.num_epochs * TrainBatches))
    /\ [][(pc = "while" /\ FLAGS.num_epochs = 0) =>
             (pc' = "for" /\ epoch' = epoch + 1)]_vars
    /\ <>(BudgetFitsCap => (pc = "done" \/ (pc = "failed" /\ dev_set = <<>>)))

\* a run with num_epochs = 2 returned after 2 epochs
C7_Witness ==
    /\ pc = "done"
    /\ FLAGS.num_epochs = 2
    /\ epoch = 2
    /\ global_step_var = 2 * TrainBatches

RECURSIVE WeightedSum(_)
WeightedSum(bs) ==
    IF bs = <<>> THEN 0
    ELSE Head(bs).loss * Head(bs).batch_size + WeightedSum(Tail(bs))

RECURSIVE TotalSize(_)
TotalSize(bs) == IF bs = <<>> THEN 0 ELSE Head(bs).batch_size + TotalSize(Tail(bs))

RECURSIVE TotalLoss(_)
TotalLoss(bs) == IF bs = <<>> THEN 0 ELSE Head(bs).loss + TotalLoss(Tail(bs))

UniformSizes(bs) == \A i, j \in 1..Len(bs) : bs[i].batch_size = bs[j].batch_size

\* C8: for a non-empty sequence of batches custom_get_dev_loss returns
\* sum(loss_i * size_i) / sum(size_i); with uniform sizes that is the plain
\* mean of the batch losses; sizes [3,1] with losses [2,10] give 4.
C8_WeightedMean ==
    (dl_pc \in {"return", "raised"} /\ dl_batches # <<>>) =>
        /\ dl_pc = "return"
        /\ Val(dl_result)[1] * TotalSize(dl_batches)
             = WeightedSum(dl_batches) * Val(dl_result)[2]
        /\ UniformSizes(dl_batches) =>
             Val(dl_result)[1] * Len(dl_batches)
               = TotalLoss(dl_batches) * Val(dl_result)[2]
        /\ dl_batches = <<[loss |-> 2, batch_size |-> 3], [loss |-> 10, batch_size |-> 1]>>
             => Val(dl_result)[1] = 4 * Val(dl_result)[2]

\* the call on sizes [3,1] with losses [2,10] returned 16/4
C8_Witness ==
    /\ dl_pc = "return"
    /\ dl_batches = <<[loss |-> 2, batch_size |-> 3], [loss |-> 10, batch_size |-> 1]>>
    /\ dl_result = Some(<<16, 4>>)

RECURSIVE Flatten(_)
Flatten(bs) == IF bs = <<>> THEN <<>> ELSE Head(bs) \o Flatten(Tail(bs))

TotalExamples == Len(Flatten(cs_batches))

\* number of examples check_score_cm is to collect
Wanted ==
    IF num_samples = 0 \/ num_samples > TotalExamples
    THEN TotalExamples ELSE num_samples

\* number of leading batches that hold the first n examples
BatchesHolding(n) ==
    CHOOSE k \in 0..Len(cs_batches) :
        /\ Len(Flatten(SubSeq(cs_batches, 1, k))) >= n
        /\ \A j \in 0..(k - 1) : Len(Flatten(SubSeq(cs_batches, 1, j))) < n

\* C9: check_score_cm collects predicted and actual labels of the same
\* examples, in generator order: all examples with num_samples = 0, the first
\* min(num_samples, total) otherwise, the last batch taken cut to fill the
\* limit; once the limit is filled no further batch is taken from the
\* generator; limit 5 over batches of 4 and 4 collects 4, then 1, then stops.
C9_SampleLimit ==
    /\ actual_list = pred_list
    /\ pred_list = FirstN(Flatten(cs_batches), Len(pred_list))
    /\ (num_samples > 0 => Len(pred_list) <= num_samples)
    /\ cs_pc = "return" =>
         /\ Len(pred_list) = Wanted
         /\ cs_next - 1 = IF num_samples = 0 \/ num_samples > TotalExamples
                          THEN Len(cs_batches) ELSE BatchesHolding(num_samples)
    /\ (num_samples = 5 /\ cs_batches = BatchesFrom(1, <<4, 4>>)) =>
         /\ cs_next = 2 => (Len(pred_list) = 4 /\ cs_pc = "loop")
         /\ cs_next = 3 => (Len(pred_list) = 5 /\ cs_pc = "return")

\* limit 5 over batches of 4 and 4: both batches taken, 5 pairs collected
C9_Witness ==
    /\ cs_pc = "return"
    /\ num_samples = 5
    /\ cs_batches = BatchesFrom(1, <<4, 4>>)
    /\ pred_list = <<1, 2, 3, 4, 5>>
    /\ actual_list = <<1, 2, 3, 4, 5>>
    /\ cs_next = 3

\* C10: the evaluation block is entered exactly from a step whose counter is a
\* multiple of eval_every; when the comparisons start, dev loss, train score
\* (limit 1000) and dev score (limit 0) have been computed and written, in
\* this order, as "dev/loss", "train/subm_score" and "dev/subm_score" tagged
\* with the current step; and nothing before the comparisons touches the best
\* values or the best slots.
C10_EvalSchedule ==
    /\ [][/\ ((pc' = "eval_loss" /\ pc # "eval_loss") =>
                (pc = "save" /\ global_step % FLAGS.eval_every = 0))
           /\ ((pc = "save" /\ global_step % FLAGS.eval_every = 0) => pc' = "eval_loss")
           /\ (pc \notin {"es_score", "es_loss"} =>
                UNCHANGED <<best_subm_score, lowest_dev_loss, bestmodel_saver,
                            bestmodel_dev_loss_saver>>)]_vars
    /\ [](pc = "es_score" =>
            (/\ global_step % FLAGS.eval_every = 0
             /\ summary_writer =
                  << <<"dev/loss", Val(dev_loss), global_step>>,
                     <<"train/subm_score", Val(train_score), global_step>>,
                     <<"dev/subm_score", Val(dev_score), global_step>> >>
             /\ score_calls = << <<"train", 1000>>, <<"dev", 0>> >>))

\* with eval_every = 2 the evaluation of step 2 is about to compare
C10_Witness ==
    /\ pc = "es_score"
    /\ FLAGS.eval_every = 2
    /\ global_step = 2
    /\ Len(summary_writer) = 3

\* training batches processed so far, counted by the two loops
BatchesProcessed == IF epoch = 0 THEN 0 ELSE (epoch - 1) * TrainBatches + batch_idx

\* C11: the step counter starts at 0 and always equals the number of training
\* batches processed: a training step adds exactly 1 to it, and no other step
\* (epoch boundary, logging, saving, evaluation, comparison) changes it.
C11_StepCounter ==
    /\ [](global_step_var = BatchesProcessed)
    /\ [][IF pc = "for" /\ pc' = "print"
           THEN global_step_var' = global_step_var + 1
           ELSE global_step_var' = global_step_var]_vars

\* the second epoch has processed its batch after a first step that logged,
\* saved and evaluated
C11_Witness ==
    /\ epoch = 2
    /\ pc = "for"
    /\ global_step_var = TrainBatches + 1
    /\ written # <<>>
    /\ written[1] = 1
    /\ bestmodel_saver = <<1>>
    /\ FLAGS.print_every = 1

\* C12: the log block changes nothing but the log: step counter, returned
\* step, smoothed loss, best score, lowest loss and the three slots are as
\* before; a record (epoch, step, loss, smoothed loss) is emitted exactly when
\* the step is a multiple of print_every.
C12_LogFrame ==
    [][pc = "print" =>
         /\ UNCHANGED <<global_step_var, global_step, exp_loss, best_subm_score,
                        lowest_dev_loss, saver, bestmodel_saver,
                        bestmodel_dev_loss_saver, written>>
         /\ IF global_step % FLAGS.print_every = 0
            THEN info_log' = Some(<<epoch, global_step, loss, Val(exp_loss)>>)
            ELSE info_log' = None]_vars

\* step 2 was logged with print_every = 2 while a checkpoint and both best
\* values exist
C12_Witness ==
    /\ pc = "save"
    /\ FLAGS.print_every = 2
    /\ global_step = 2
    /\ info_log # None
    /\ saver # <<>>
    /\ best_subm_score # None
    /\ lowest_dev_loss # None

\* C13: once a scheduled action (most-recent save, evaluation, best-slot
\* save) has raised, custom_train has been left and nothing happens any more:
\* no handler resumes the loop, no training step, save or evaluation follows.
C13_FailureTerminates ==
    /\ [](raised # None => pc = "failed")
    /\ [][raised = None]_vars

\* a best-slot save of step 2 raised after the evaluation of step 1 had saved
C13_Witness ==
    /\ pc = "failed"
    /\ raised = Some(SomeException)
    /\ global_step = 2
    /\ bestmodel_saver = <<1>>
    /\ best_subm_score = Some(1)
    /\ lowest_dev_loss # None
    /\ dev_score = Some(1)

\* C16: with a dev source that yields no batch, the evaluation step raises
\* ZeroDivisionError in custom_get_dev_loss and ends the run there: no dev
\* loss is returned or written, no score is computed, and the best values and
\* the best slots stay as they were (still unset).
C16_EmptyDevSetAborts ==
    /\ [][(pc = "eval_loss" /\ dev_set = <<>>) =>
            (/\ pc' = "failed"
             /\ raised' = Some(ZeroDivisionError)
             /\ UNCHANGED <<dev_loss, train_score, dev_score, summary_writer,
                            score_calls, best_subm_score, lowest_dev_loss,
                            bestmodel_saver, bestmodel_dev_loss_saver, saver,
                            global_step_var>>)]_vars
    /\ [](dev_set = <<>> =>
            (/\ dev_loss = None /\ train_score = None /\ dev_score = None
             /\ summary_writer = <<>> /\ score_calls = <<>>
             /\ best_subm_score = None /\ lowest_dev_loss = None
             /\ bestmodel_saver = <<>> /\ bestmodel_dev_loss_saver = <<>>))
    /\ [][pc # "failed"]_vars

\* the evaluation of step 2 hit the empty dev set after step 2 was saved
C16_Witness ==
    /\ dev_set = <<>>
    /\ pc = "failed"
    /\ raised = Some(ZeroDivisionError)
    /\ FLAGS.eval_every = 2
    /\ global_step = 2
    /\ saver # <<>>

\* the comparisons of the last evaluation are over
ComparisonsDone == pc \notin {"es_score", "es_loss"}

\* index in observed of the earliest evaluation with the highest dev score
EarliestMaxScore ==
    CHOOSE i \in 1..Len(observed) :
        /\ \A j \in 1..Len(observed) : observed[j][2] <= observed[i][2]
        /\ \A j \in 1..(i - 1) : observed[j][2] < observed[i][2]

\* index in observed of the earliest evaluation with the lowest dev loss
EarliestMinLoss ==
    CHOOSE i \in 1..Len(observed) :
        /\ \A j \in 1..Len(observed) :
              observed[i][3][1] * observed[j][3][2] <= observed[j][3][1] * observed[i][3][2]
        /\ \A j \in 1..(i - 1) :
              observed[i][3][1] * observed[j][3][2] < observed[j][3][1] * observed[i][3][2]

\* C15: between evaluations the best score is the maximum of the dev scores
\* observed and the lowest loss the minimum of the dev losses observed, each
\* best slot holds exactly the checkpoint of the earliest evaluation step that
\* reached that extremum, the first evaluation saves to both best slots, and
\* the best score never decreases and the lowest loss never increases.
C15_BestIsExtremum ==
    /\ []((ComparisonsDone /\ observed = <<>>) =>
            (/\ best_subm_score = None /\ lowest_dev_loss = None
             /\ bestmodel_saver = <<>> /\ bestmodel_dev_loss_saver = <<>>))
    /\ []((ComparisonsDone /\ observed # <<>>) =>
            (/\ best_subm_score = Some(observed[EarliestMaxScore][2])
             /\ bestmodel_saver = <<observed[EarliestMaxScore][1]>>
             /\ lowest_dev_loss = Some(observed[EarliestMinLoss][3])
             /\ bestmodel_dev_loss_saver = <<observed[EarliestMinLoss][1]>>))
    /\ []((ComparisonsDone /\ Len(observed) = 1) =>
            (/\ bestmodel_saver = <<observed[1][1]>>
             /\ bestmodel_dev_loss_saver = <<observed[1][1]>>))
    /\ [][/\ (best_subm_score # None =>
                (best_subm_score' # None /\ Val(best_subm_score') >= Val(best_subm_score)))
           /\ (lowest_dev_loss # None =>
                (/\ lowest_dev_loss' # None
                 /\ Val(lowest_dev_loss')[1] * Val(lowest_dev_loss)[2]
                      <= Val(lowest_dev_loss)[1] * Val(lowest_dev_loss')[2]))]_vars

\* three evaluations: the second reached the best score and the lowest loss,
\* the third tied both and replaced neither checkpoint
C15_Witness ==
    /\ pc = "for"
    /\ Len(observed) = 3
    /\ observed[1][2] < observed[2][2]
    /\ observed[3][2] = observed[2][2]
    /\ observed[2][3][1] * observed[1][3][2] < observed[1][3][1] * observed[2][3][2]
    /\ observed[3][3] = observed[2][3]
    /\ bestmodel_saver = <<observed[2][1]>>
    /\ bestmodel_dev_loss_saver = <<observed[2][1]>>

====
